---- MODULE Spec2Model ----
(***************************************************************************)
(* Model of the boid simulation in src/src/main.rs: the parameter record   *)
(* BoidState, the agent Boid with its three steering rules and its         *)
(* integration / boundary handling, and the frame handlers of MainState    *)
(* (update: step loop, sliders, reset button; draw: instance array).       *)
(*                                                                         *)
(* Numbers.  The program computes in f32.  The model computes in fixed     *)
(* point: a number is an integer count of 1/Scale, sums and comparisons    *)
(* are exact, products and quotients are rounded to the nearest count.     *)
(* Infinities and NaN are outside the model.  A Vec3 is a triple.          *)
(***************************************************************************)
EXTENDS Integers, Sequences, FiniteSets, TLC

VARIABLES
    boids,       \* MainState.boids: the flock, a sequence of Boid
    boid_state,  \* MainState.boid_state: the parameters the sliders edit
    instances,   \* MainState.instances: what fn draw last set
    phase,       \* the handler the event loop calls next
    frames,      \* calls of fn update so far
    tick         \* record of the last operation: its inputs and what it computed

vars == <<boids, boid_state, instances, phase, frames, tick>>

(***************************************************************************)
(* f32 as fixed point                                                      *)
(***************************************************************************)
\* Units per 1.0: a number x of the program is the integer x * Scale.
Scale == 200

Abs(n) == IF n < 0 THEN -n ELSE n

\* The element of a one-element set: The({e(x) : x \in {v}}) is e(v), with v
\* computed once.
The(S) == CHOOSE x \in S : TRUE

\* n / d rounded to the nearest integer, halves away from zero (d > 0).
RoundDiv(n, d) ==
    IF n >= 0 THEN (2 * n + d) \div (2 * d) ELSE -((2 * (-n) + d) \div (2 * d))

\* The literal n, and the literal n / d.
R(n) == n * Scale
Q(n, d) == RoundDiv(n * Scale, d)

\* a * b and a / n (n a count), rounded to the grid.
RMul(a, b) == RoundDiv(a * b, Scale)
RDivInt(a, n) == RoundDiv(a, n)
RMin(a, b) == IF b < a THEN b ELSE a
RMax(a, b) == IF a < b THEN b ELSE a

(***************************************************************************)
(* glam::Vec3                                                              *)
(***************************************************************************)
Axes == 1..3
VecZero == <<0, 0, 0>>
VAdd(u, v) == <<u[1] + v[1], u[2] + v[2], u[3] + v[3]>>
VSub(u, v) == <<u[1] - v[1], u[2] - v[2], u[3] - v[3]>>
VScale(u, k) == [a \in Axes |-> RMul(u[a], k)]
VDivInt(u, n) == [a \in Axes |-> RDivInt(u[a], n)]

\* Squared Euclidean distance |u - v|^2, in units of 1 / Scale^2.
DistSq(u, v) ==
    (u[1] - v[1]) * (u[1] - v[1]) + (u[2] - v[2]) * (u[2] - v[2])
    + (u[3] - v[3]) * (u[3] - v[3])

\* Vec3::distance(u, v) < lim, decided on the squares: the distance is >= 0
\* and at least the difference on every axis, so it is below lim exactly when
\* lim > 0, every axis differs by less than lim, and |u - v|^2 < lim^2.
DistLt(u, v, lim) ==
    /\ lim > 0
    /\ Abs(u[1] - v[1]) < lim
    /\ Abs(u[2] - v[2]) < lim
    /\ Abs(u[3] - v[3]) < lim
    /\ DistSq(u, v) < lim * lim

\* Vec3::distance(u, v) > 0.0
DistPos(u, v) == u # v

(***************************************************************************)
(* struct BoidState and its Default                                        *)
(***************************************************************************)
BoidStateDefault ==
    [max_speed     |-> R(500),
     view_distance |-> R(10),
     min_distance  |-> R(5),
     box_size      |-> R(100),
     avoidance     |-> Q(1, 2),
     centering     |-> Q(3, 40),
     matching      |-> Q(1, 5)]

(***************************************************************************)
(* struct Boid { pos, vel, col } and its rules                             *)
(***************************************************************************)
Boid(p, v, c) == [pos |-> p, vel |-> v, col |-> c]

\* The guard of the neighbour scans of center and matching:
\* self.pos.distance(other.pos) < boid_state.view_distance
InView(self, other, st) == DistLt(self.pos, other.pos, st.view_distance)

\* The guard of the agent scan without its `&& dist > 0.0`.
TooCloseNoZeroGuard(self, other, st) == DistLt(self.pos, other.pos, st.min_distance)

\* The guard of the agent scan of avoid:
\* dist < boid_state.min_distance && dist > 0.0
TooClose(self, other, st) ==
    DistLt(self.pos, other.pos, st.min_distance) /\ DistPos(self.pos, other.pos)

\* The indices the scan of center counts as neighbours.
CenterNeighbors(self, bs, st) == {j \in DOMAIN bs : InView(self, bs[j], st)}

\* The indices the scan of matching counts as neighbours.
MatchingNeighbors(self, bs, st) == {j \in DOMAIN bs : InView(self, bs[j], st)}

\* The indices the agent scan of avoid accumulates.
AvoidNeighbors(self, bs, st) == {j \in DOMAIN bs : TooClose(self, bs[j], st)}

\* Sum of f[j] over the indices j of lo..hi that lie in nb.  Sums are exact
\* in the model, so the order of the scan does not show; the range is split
\* in halves.
RECURSIVE SumOver(_, _, _, _)
SumOver(f, nb, lo, hi) ==
    IF lo > hi THEN VecZero
    ELSE IF lo = hi THEN (IF lo \in nb THEN f[lo] ELSE VecZero)
    ELSE LET mid == (lo + hi) \div 2
         IN VAdd(SumOver(f, nb, lo, mid), SumOver(f, nb, mid + 1, hi))

\* fn center
center(self, bs, st) ==
    LET nb == CenterNeighbors(self, bs, st)
        num_neighbors == Cardinality(nb)
        sum == SumOver([j \in DOMAIN bs |-> bs[j].pos], nb, 1, Len(bs))
    IN IF num_neighbors > 0
       THEN [self EXCEPT !.vel =
                VAdd(self.vel,
                     VScale(VSub(VDivInt(sum, num_neighbors), self.pos), st.centering))]
       ELSE self

\* move_vec of the agent scan of fn avoid.
AgentRepulsion(self, bs, st) ==
    LET nb == AvoidNeighbors(self, bs, st)
    IN SumOver([j \in DOMAIN bs |-> VSub(self.pos, bs[j].pos)], nb, 1, Len(bs))

\* The first half of fn avoid: self.vel += move_vec * boid_state.avoidance
AvoidAgents(self, bs, st) ==
    [self EXCEPT !.vel = VAdd(self.vel, VScale(AgentRepulsion(self, bs, st), st.avoidance))]

\* Whether a wall at coordinate wall triggers: dist < min_distance && dist > 0.0
WallNear(x, wall, st) ==
    LET dist == Abs(wall - x)
    IN dist < st.min_distance /\ dist > 0

\* The "Avoid walls" block with the high face's difference taken the other
\* way round (box_size - pos).
WallMoveHighFlipped(x, st) ==
    (IF WallNear(x, st.box_size, st) THEN st.box_size - x ELSE 0)
    + (IF WallNear(x, 0, st) THEN x ELSE 0)

\* move_vec of the "Avoid walls" block on one axis: the high face, then the
\* low face.
WallMove(x, st) ==
    (IF WallNear(x, st.box_size, st) THEN x - st.box_size ELSE 0)
    + (IF WallNear(x, 0, st) THEN x ELSE 0)

\* The multiplier of self.vel += move_vec * 4.0
WallFactor == R(4)

\* The second half of fn avoid: self.vel += move_vec * 4.0
AvoidWalls(self, st) ==
    [self EXCEPT !.vel =
        VAdd(self.vel, VScale([a \in Axes |-> WallMove(self.pos[a], st)], WallFactor))]

\* fn avoid
avoid(self, bs, st) == AvoidWalls(AvoidAgents(self, bs, st), st)

\* fn matching
matching(self, bs, st) ==
    LET nb == MatchingNeighbors(self, bs, st)
        num_neighbors == Cardinality(nb)
        sum == SumOver([j \in DOMAIN bs |-> bs[j].vel], nb, 1, Len(bs))
    IN IF num_neighbors > 0
       THEN [self EXCEPT !.vel =
                VAdd(self.vel,
                     VScale(VSub(VDivInt(sum, num_neighbors), self.vel), st.matching))]
       ELSE self

\* self.pos += self.vel * dt
Integrate(self, dt) == [self EXCEPT !.pos = VAdd(self.pos, VScale(self.vel, dt))]

\* pos.cmpgt(splat(box_size)): negate the velocity on every axis that is above.
ReflectHigh(self, st) ==
    [self EXCEPT !.vel = [a \in Axes |->
        IF self.pos[a] > st.box_size THEN -self.vel[a] ELSE self.vel[a]]]

\* pos.cmplt(Vec3::ZERO): negate the velocity on every axis that is below.
ReflectLow(self, st) ==
    [self EXCEPT !.vel = [a \in Axes |->
        IF self.pos[a] < 0 THEN -self.vel[a] ELSE self.vel[a]]]

\* glam's Vec3::clamp(self, min, max) -> Vec3 takes self by value and returns
\* the clamped vector.
VClamp(v, lo, hi) == [a \in Axes |-> RMin(RMax(v[a], lo), hi)]

\* The statement `self.pos.clamp(Vec3::ZERO, Vec3::splat(box_size));` computes
\* the clamped vector and drops it: self.pos is not assigned.
ClampPosStmt(self, st) == self

\* The statement `self.vel.clamp(splat(-max_speed), splat(max_speed));`
\* likewise drops its result: self.vel is not assigned.
ClampVelStmt(self, st) == self

\* The rules and the integration of fn update, up to the boundary handling.
Moved(self, dt, bs, st) ==
    The({Integrate(c, dt) : c \in
        {matching(b, bs, st) : b \in
            {avoid(a, bs, st) : a \in {center(self, bs, st)}}}})

\* The boundary handling of fn update, applied to the integrated boid.
Bounce(m, st) == ClampVelStmt(ClampPosStmt(ReflectLow(ReflectHigh(m, st), st), st), st)

\* fn update
BoidUpdate(self, dt, bs, st) == The({Bounce(m, st) : m \in {Moved(self, dt, bs, st)}})

(***************************************************************************)
(* Bounds of the model                                                     *)
(***************************************************************************)
\* Calls of fn update the model follows.
MaxFrames == 2

(***************************************************************************)
(* impl Default for Boid: the draws of rand::thread_rng()                  *)
(***************************************************************************)
\* The flock size of MainState::new and of the reset button.
NumBoids == 100
\* The number of instances fn draw sets: (0..100).
NumInstances == 100

\* gen_range(0.0..boid_state.box_size) with boid_state = BoidState::default():
\* sample outcomes, all in [0, 100).
PosDraws == <<R(0), R(3), R(50), R(52), R(97), Q(199, 2), R(20), R(80)>>
\* gen_range(0.0..10.0): sample outcomes, all in [0, 10).
VelDraws == <<R(0), R(1), R(9), R(4), Q(19, 2)>>
\* gen_range(0.0..1.0): sample outcomes, all in [0, 1).
ColDraws == <<R(0), Q(1, 2), Q(3, 4)>>

\* Three consecutive draws of the i-th call under the generator run seed.
Draw3(draws, seed, i, k) ==
    [a \in Axes |-> draws[((seed * 7 + i * k + a * (seed + 2)) % Len(draws)) + 1]]

\* Boid::default() as the i-th call of the generator run seed.
BoidDefault(seed, i) ==
    Boid(Draw3(PosDraws, seed, i, 3),
         Draw3(VelDraws, seed, i, 7),
         Draw3(ColDraws, seed, i, 1) \o <<R(1)>>)

\* The push loop running one turn short.
FreshFlockShort(seed) == [i \in 1..(NumBoids - 1) |-> BoidDefault(seed, i)]

\* for _ in 0..100 { boids.push(Boid::default()); }
FreshFlock(seed) == [i \in 1..NumBoids |-> BoidDefault(seed, i)]

(***************************************************************************)
(* MainState                                                               *)
(***************************************************************************)
\* One turn of the loop of fn update:
\*     let mut boid = self.boids[i];
\*     boid.update(dt, self.boids.as_slice(), &self.boid_state);
\*     self.boids[i] = boid;
\* acc.boids is self.boids as the loop has left it so far; acc.moved records,
\* for every agent already updated, its state between the integration and
\* the boundary handling of its update.
UpdateAt(acc, i, dt, st) ==
    The({[boids |-> [acc.boids EXCEPT ![i] = Bounce(m, st)],
          moved |-> [acc.moved EXCEPT ![i] = m]]
         : m \in {Moved(acc.boids[i], dt, acc.boids, st)}})

\* for i in 0..self.boids.len() { ... }: the turns lo..hi in index order (the
\* range is split in halves: first lo..mid, then mid+1..hi on its result).
RECURSIVE StepLoop(_, _, _, _, _)
StepLoop(acc, lo, hi, dt, st) ==
    IF lo > hi THEN acc
    ELSE IF lo = hi THEN The({UpdateAt(cur, lo, dt, st) : cur \in {acc}})
    ELSE The({StepLoop(left, ((lo + hi) \div 2) + 1, hi, dt, st)
              : left \in {StepLoop(acc, lo, (lo + hi) \div 2, dt, st)}})

\* The step loop on the flock bs: the flock it leaves (boids), with the
\* flock it started from (before) and the agents as integrated (moved).
Step(bs, dt, st) ==
    The({[before |-> bs, boids |-> r.boids, moved |-> r.moved]
         : r \in {StepLoop([boids |-> bs, moved |-> bs], 1, Len(bs), dt, st)}})

\* ctx.time.delta().as_secs_f32(): sample frame times.
DtVals == {R(1), Q(1, 2)}

\* What one frame of the sliders can leave in boid_state: nothing changed, or
\* a field set to a value of its slider's range.  Sampled: the box size, the
\* speed limit and the view distance.
SliderOutcomes(st) ==
    {st,
     [st EXCEPT !.box_size = R(50)],
     [st EXCEPT !.max_speed = R(1)],
     [st EXCEPT !.view_distance = R(0)]}

\* Outcomes of the random generator for one whole flock.
Seeds == {1, 2}

\* What the window of one frame does: the pointer moves at most one slider
\* or clicks the reset button (the quit button ends the program).
GuiEvents(st) ==
    {[state |-> s, reset |-> FALSE, seed |-> 1] : s \in SliderOutcomes(st)}
    \cup {[state |-> st, reset |-> TRUE, seed |-> seed] : seed \in Seeds}

\* What tick records of a call of fn update: the frame time and the
\* parameters its step loop ran with, the flock as the step loop left it
\* (after) and each agent between integration and boundary handling (moved).
\* A reset discards that flock.
UpdateRecord(dt, st, res, reset) ==
    IF reset
    THEN [op |-> "update", reset |-> TRUE]
    ELSE [op |-> "update", reset |-> FALSE, dt |-> dt, state |-> st,
          before |-> res.before, moved |-> res.moved, after |-> res.boids]

\* MainState::new
Init ==
    /\ boid_state = BoidStateDefault
    /\ \E seed \in Seeds : boids = FreshFlock(seed)
    /\ instances = <<>>
    /\ phase = "update"
    /\ frames = 0
    /\ tick = [op |-> "new"]

\* EventHandler::update: the step loop, then the sliders and the reset button.
Update ==
    /\ phase = "update"
    /\ frames < MaxFrames
    /\ \E dt \in DtVals :
         \E res \in {Step(boids, dt, boid_state)} :
            \E ev \in GuiEvents(boid_state) :
              /\ boids' = IF ev.reset THEN FreshFlock(ev.seed) ELSE res.boids
              /\ boid_state' = ev.state
              /\ tick' = UpdateRecord(dt, boid_state, res, ev.reset)
    /\ frames' = frames + 1
    /\ phase' = "draw"
    /\ UNCHANGED instances

\* EventHandler::draw: self.instances.set((0..100).map(|i| ... self.boids[i] ...)).
\* Of each DrawParam3d the position and the colour are modelled.  An index
\* past the end of self.boids panics.
Draw ==
    /\ phase = "draw"
    /\ IF NumInstances <= Len(boids)
       THEN /\ instances' = [i \in 1..NumInstances |->
                               [position |-> VDivInt(boids[i].pos, 2),
                                color |-> boids[i].col]]
            /\ phase' = "update"
       ELSE /\ phase' = "panicked"
            /\ UNCHANGED instances
    /\ UNCHANGED <<boids, boid_state, frames, tick>>

\* event::run calls update and then draw, once per frame.
Next == Update \/ Draw

Spec == Init /\ [][Next]_vars

(***************************************************************************)
(* The rules and the step loop on sample flocks                            *)
(***************************************************************************)
\* Agents in a sample flock.
TestFlockSize == 2

\* Sample parameter records: box sizes and distances of the sliders' ranges
\* and the defaults; the weights are the defaults.
TestStates ==
    {[BoidStateDefault EXCEPT !.box_size = b, !.min_distance = m, !.view_distance = v]
     : b \in {R(1), R(100)},
       m \in {R(0), Q(1, 10), Q(1, 2), R(2), R(5)},
       v \in {R(0), R(10)}}

\* Sample distances from the high face.
TestGaps == {Q(1, 10), Q(1, 2), R(2), R(5)}

\* Sample agents for the parameters st: on the x axis at the low face, in the
\* middle, and at the sample distances from the high face.
TestBoids(st) ==
    {Boid(<<x, R(50), R(50)>>, <<v, R(0), R(0)>>, <<R(0), R(0), R(0), R(1)>>)
     : x \in {R(0), R(50)} \cup {st.box_size - d : d \in TestGaps},
       v \in {R(1), R(10)}}

TestFlocks(st) == [1..TestFlockSize -> TestBoids(st)]

RuleInit ==
    /\ boid_state \in TestStates
    /\ boids \in TestFlocks(boid_state)
    /\ instances = <<>>
    /\ phase = "test"
    /\ frames = 0
    /\ tick = [op |-> "new"]

\* The three rule calls of fn update on agent i, each result recorded:
\* center; the agent scan of avoid (agents) and its wall block (walls);
\* matching; with the neighbour sets the scans used.
ApplyRules ==
    /\ phase = "test"
    /\ \E i \in DOMAIN boids :
       \E c \in {center(boids[i], boids, boid_state)} :
       \E a \in {AvoidAgents(c, boids, boid_state)} :
       \E w \in {AvoidWalls(a, boid_state)} :
       \E m \in {matching(w, boids, boid_state)} :
         /\ w = avoid(c, boids, boid_state)
         /\ tick' = [op |-> "rules", self |-> i, state |-> boid_state,
                     before |-> boids,
                     view_c |-> CenterNeighbors(boids[i], boids, boid_state),
                     close |-> AvoidNeighbors(c, boids, boid_state),
                     view_m |-> MatchingNeighbors(w, boids, boid_state),
                     centered |-> c, agents |-> a, walls |-> w, matched |-> m]
         /\ boids' = [boids EXCEPT ![i] = m]
    /\ phase' = "done"
    /\ UNCHANGED <<boid_state, instances, frames>>

\* One run of the step loop of fn update on the sample flock.
TestStep ==
    /\ phase = "test"
    /\ \E dt \in DtVals :
       \E res \in {Step(boids, dt, boid_state)} :
         /\ boids' = res.boids
         /\ tick' = [op |-> "step", dt |-> dt, state |-> boid_state,
                     before |-> res.before, moved |-> res.moved, after |-> res.boids]
    /\ phase' = "done"
    /\ frames' = frames + 1
    /\ UNCHANGED <<boid_state, instances>>

RuleNext == ApplyRules \/ TestStep

RuleSpec == RuleInit /\ [][RuleNext]_vars

(***************************************************************************)
(* Properties                                                              *)
(***************************************************************************)
\* The last operation was a call of fn update whose stepped flock was kept.
Stepped == tick.op = "update" /\ ~tick.reset

\* C1: once a step has completed, every position component of every agent
\* lies in [0, box_size], box_size being the value the step ran with.
C1_PositionInBox ==
    Stepped =>
        \A i \in DOMAIN tick.after : \A a \in Axes :
            /\ tick.after[i].pos[a] >= 0
            /\ tick.after[i].pos[a] <= tick.state.box_size

\* C2: after every step every velocity component of every agent lies in
\* [-max_speed, max_speed], max_speed being the value the step ran with.
C2_VelocityInLimit ==
    Stepped =>
        \A i \in DOMAIN tick.after : \A a \in Axes :
            /\ tick.after[i].vel[a] >= -tick.state.max_speed
            /\ tick.after[i].vel[a] <= tick.state.max_speed

\* A double-buffered step: every agent is updated against the same flock bs.
SnapshotStep(bs, dt, st) == [i \in DOMAIN bs |-> BoidUpdate(bs[i], dt, bs, st)]

\* C3: the flock a step leaves equals the flock a double-buffered step on the
\* start-of-tick flock leaves: no agent reads an already-updated agent.
C3_StepIsSnapshotStep ==
    Stepped =>
        \A i \in DOMAIN tick.after :
            tick.after[i] = SnapshotStep(tick.before, tick.dt, tick.state)[i]

\* C4: after a reset every position component of every new agent lies in
\* [0, box_size), box_size being the parameter's value at the reset.
C4_ResetInCurrentBox ==
    (tick.op = "update" /\ tick.reset) =>
        \A i \in DOMAIN boids : \A a \in Axes :
            boids[i].pos[a] >= 0 /\ boids[i].pos[a] < boid_state.box_size

\* C5: the flock holds exactly 100 agents at startup and after any sequence
\* of steps and resets, and the read of indices 0..100 by fn draw is never
\* out of bounds.
C5_FlockOfHundred ==
    /\ Len(boids) = 100
    /\ phase # "panicked"
    /\ instances # <<>> => Len(instances) = 100

\* C5's case: a reset has replaced a stepped flock and fn draw has read it.
C5_Witness ==
    /\ tick.op = "update" /\ tick.reset
    /\ frames = 2
    /\ phase = "update"
    /\ Len(instances) = 100
    /\ \A i \in 1..100 : instances[i].color = boids[i].col

\* C6: an agent whose integrated position exceeds box_size on an axis ends
\* the step with that axis's velocity negated and its position exactly
\* box_size; one below 0 ends at exactly 0 with the velocity negated.
C6_BounceExact ==
    Stepped =>
        \A i \in DOMAIN tick.after : \A a \in Axes :
            /\ tick.moved[i].pos[a] > tick.state.box_size =>
                  /\ tick.after[i].vel[a] = -tick.moved[i].vel[a]
                  /\ tick.after[i].pos[a] = tick.state.box_size
            /\ tick.moved[i].pos[a] < 0 =>
                  /\ tick.after[i].vel[a] = -tick.moved[i].vel[a]
                  /\ tick.after[i].pos[a] = 0

\* C10: an agent that ends a step above box_size on an axis does not head
\* further out (velocity <= 0 there); one that ends below 0 has velocity >= 0.
C10_NeverTurnedOutward ==
    Stepped =>
        \A i \in DOMAIN tick.after : \A a \in Axes :
            /\ tick.after[i].pos[a] > tick.state.box_size => tick.after[i].vel[a] <= 0
            /\ tick.after[i].pos[a] < 0 => tick.after[i].vel[a] >= 0

\* The rules were applied to the agent tick.self, whose x position was
\* box_size - d.
Probed == tick.op = "rules"
ProbedX == tick.before[tick.self].pos[1]
ProbedGap == tick.state.box_size - ProbedX
\* The change of the x velocity by the wall block of avoid.
WallPushX == tick.walls.vel[1] - tick.agents.vel[1]
\* x is within min_distance of the low face and not on it.
LowFaceNear == Abs(ProbedX) < tick.state.min_distance /\ ProbedX # 0

\* C7 as stated: for x = box_size - d with d > 0 and min_distance >= d, the
\* wall block of avoid changes the x velocity by a strictly negative amount.
C7_WallPushAtOrWithin ==
    (Probed /\ ProbedGap > 0 /\ tick.state.min_distance >= ProbedGap) => WallPushX < 0

\* C7 amended: for x = box_size - d with d > 0 and min_distance > d strictly,
\* and the agent not at once within min_distance of the low face (unless
\* box_size < 2 d), the wall block of avoid changes the x velocity by a
\* strictly negative amount.
C7_WallPushStrictlyWithin ==
    (/\ Probed
     /\ ProbedGap > 0
     /\ tick.state.min_distance > ProbedGap
     /\ (LowFaceNear => tick.state.box_size < 2 * ProbedGap))
    => WallPushX < 0

\* C7's case: the agent 0.1 below the high face of the default box with
\* velocity +10 and min_distance 0.5 has been pushed by -0.4.
C7_Witness ==
    /\ Probed
    /\ tick.state.box_size = R(100)
    /\ ProbedGap = Q(1, 10)
    /\ tick.state.min_distance = Q(1, 2)
    /\ tick.before[tick.self].vel[1] = R(10)
    /\ WallPushX = -Q(4, 10)

\* The agents have the same position and the same velocity.
Coincident(bs) == \A i, j \in DOMAIN bs : bs[i].pos = bs[j].pos /\ bs[i].vel = bs[j].vel

\* C8: from two agents with the same position and velocity, default
\* parameters and dt = 1, for both agents the agent-avoidance, centering and
\* matching contributions are zero (the velocity the rules leave differs
\* from the initial one by the wall push alone) and the resulting position
\* is the initial position plus the initial velocity, clamped to the box.
C8_CoincidentPairScenario ==
    (/\ tick.op = "step"
     /\ Len(tick.before) = 2
     /\ Coincident(tick.before)
     /\ tick.state = BoidStateDefault
     /\ tick.dt = R(1))
    => \A i \in DOMAIN tick.before :
         /\ tick.moved[i].vel = AvoidWalls(tick.before[i], tick.state).vel
         /\ tick.after[i].pos =
               VClamp(VAdd(tick.before[i].pos, tick.before[i].vel),
                      0, tick.state.box_size)

\* Another agent at exactly the position of the probed one.
AtZeroDistance(j) == j # tick.self /\ tick.before[j].pos = tick.before[tick.self].pos

\* C9 as stated: for any parameters, an agent at zero distance is not in the
\* agent scan of avoid and is counted by the scans of center and matching.
C9_ZeroDistanceAnyView ==
    Probed =>
        \A j \in DOMAIN tick.before :
            AtZeroDistance(j) =>
                j \notin tick.close /\ j \in tick.view_c /\ j \in tick.view_m

\* C9 amended: an agent at zero distance is never in the agent scan of
\* avoid, and is counted by the scans of center and matching whenever
\* view_distance > 0.
C9_ZeroDistancePositiveView ==
    Probed =>
        \A j \in DOMAIN tick.before :
            AtZeroDistance(j) =>
                /\ j \notin tick.close
                /\ tick.state.view_distance > 0 => (j \in tick.view_c /\ j \in tick.view_m)

\* C9's case: the rules ran on an agent with another at zero distance, with
\* a positive view distance and a positive minimum distance.
C9_Witness ==
    /\ Probed
    /\ tick.state.view_distance > 0
    /\ tick.state.min_distance > 0
    /\ \E j \in DOMAIN tick.before :
         AtZeroDistance(j) /\ j \notin tick.close /\ j \in tick.view_c /\ j \in tick.view_m

====
